---- MODULE Spec2Model ----
(***************************************************************************)
(* A model of the web template of ijanc/templates:                         *)
(*   src/web/template/src/router.rs  (route, the handlers, ValidatedForm)  *)
(*   src/web/template/src/main.rs    (main, start_main_server)             *)
(*                                                                         *)
(* The module holds six state machines over disjoint groups of variables:  *)
(*   SpecRoute    one request travelling through the layers built by route *)
(*   SpecSession  sequential requests against the session store            *)
(*   SpecConc     concurrent GET /session requests of one client           *)
(*   SpecForm     POST /validation: ValidatedForm, ServerError             *)
(*   SpecCsrf     GET /csrf and POST /csrf                                 *)
(*   SpecMain     main joining the two servers                             *)
(* The behaviour of the third-party layers (tower-http, tower-sessions,    *)
(* axum-messages, axum_csrf) is modelled at the place where route installs *)
(* and configures them.                                                    *)
(***************************************************************************)
EXTENDS Naturals, Integers, Sequences, FiniteSets, TLC

VARIABLES
    \* ---- SpecRoute: one request in the middleware stack
    rPc,        \* "idle" | "inbound" | "handler" | "outbound" | "done"
    rEndpoint,  \* the endpoint the request is routed to
    rClientId,  \* the x-request-id header the client sent, or NoId
    rHeader,    \* the request's x-request-id header as the layers see it
    rStack,     \* the layers around the matched route, outermost first
    rIdx,       \* how many layers of rStack the request is inside of
    rPassed,    \* the layers entered so far, in order
    rPropId,    \* the id PropagateRequestId captured from the request
    rClock,     \* seconds since the request arrived
    rArmedAt,   \* rClock when the timeout layer was reached, or NoTime
    rRespAt,    \* seconds between reaching and leaving the timeout layer
    rResp,      \* the response, or NoResp
    \* ---- SpecSession, SpecConc: requests against the session store
    store,      \* MemoryStore: session id -> record, or NoRecord
    nextId,     \* the next session id the store hands out
    cookie,     \* each client's session cookie, or NoSession
    reqs,       \* each request slot's request
    nReq,       \* requests started so far
    gHits,      \* history: GET /session requests completed in each session
    gSeen,      \* history: the counts reported in each session
    gQueued,    \* history: a session has had GET /message and no read since
    gLastReq,   \* history: seconds since each client's last request
    gLastTouch, \* history: the same, requests of GET /about left out
    gLastHit,   \* history: seconds since each client's last GET /session
    gChain,     \* history: the count each client's next GET /session
                \* continues with
    gChainAny,  \* history: the same, every request renewing the window
    \* ---- SpecForm: one POST /validation request
    fPc,        \* "idle" | "extract" | "validate" | "handler" | "done"
    fInput,     \* the request body
    fValue,     \* the NameInput the Form extractor produced
    fError,     \* the ServerError of the extractor, or NoError
    fResp,      \* the response
    \* ---- SpecCsrf: GET /csrf and POST /csrf
    cCookie,    \* each client's CSRF cookie: a token, or NoToken
    cIssued,    \* the authenticity tokens rendered so far, per client
    cNextToken, \* the next random token
    cNextSalt,  \* the next random salt
    cLast,      \* the last request and its response
    \* ---- SpecMain: main and the two servers it joins
    mPc,        \* main: "init_tracing" | "settings" | "join" | "returned"
    mServer,    \* start_main_server: "templates" | "bind" | "serve" | "done"
    mTemplates, \* templates registered so far
    mServerRes, \* start_main_server's result, "pending" until it ends
    mShutdown,  \* the shutdown signal has arrived
    mMetrics,   \* start_metrics_server: "running" | "done"
    mMetricsRes,\* start_metrics_server's result, "pending" until it ends
    mResult     \* what main returned, "none" until it returns

routeVars == <<rPc, rEndpoint, rClientId, rHeader, rStack, rIdx, rPassed,
               rPropId, rClock, rArmedAt, rRespAt, rResp>>

sessVars == <<store, nextId, cookie, reqs, nReq, gHits, gSeen, gQueued,
              gLastReq, gLastTouch, gLastHit, gChain, gChainAny>>

formVars == <<fPc, fInput, fValue, fError, fResp>>

csrfVars == <<cCookie, cIssued, cNextToken, cNextSalt, cLast>>

mainVars == <<mPc, mServer, mTemplates, mServerRes, mShutdown, mMetrics,
              mMetricsRes, mResult>>

vars == <<routeVars, sessVars, formVars, csrfVars, mainVars>>

notRoute == <<sessVars, formVars, csrfVars, mainVars>>
notSession == <<routeVars, formVars, csrfVars, mainVars>>
notForm == <<routeVars, sessVars, csrfVars, mainVars>>
notCsrf == <<routeVars, sessVars, formVars, mainVars>>
notMain == <<routeVars, sessVars, formVars, csrfVars>>

-----------------------------------------------------------------------------
(* router.rs, route: the router is built by a chain of builder calls.  A   *)
(* layer call wraps every route registered before it; a route registered   *)
(* after it is not wrapped.                                                *)

REQUEST_ID_HEADER == "x-request-id"

\* TimeoutLayer::new(std::time::Duration::from_secs(10))
TIMEOUT_SECS == 10

\* How long the clock of a request is followed.
MaxClock == 12

NoId == "none"
NoTime == 0 - 1
NoResp == [status |-> 0, from |-> "none", headers |-> <<>>]
GeneratedUuid == "uuid"
ClientIds == {"id-a", "id-b"}

\* The tuple with the timeout layer inside the request-id propagation.
OuterLayersSwapped ==
    << "SetRequestId", "Trace", "SessionManager", "MessagesManager", "Csrf",
       "ClientIpSource", "PropagateRequestId", "Timeout" >>

\* The tuple handed to the second .layer call, in source order.  The tuple
\* implementation of Layer makes the first element the outermost service.
OuterLayers ==
    << "SetRequestId", "Trace", "SessionManager", "MessagesManager", "Csrf",
       "ClientIpSource", "Timeout", "PropagateRequestId" >>

Step(op, path, layers) == [op |-> op, path |-> path, layers |-> layers]

BuildSteps ==
    << Step("route", "/", <<>>),
       Step("route", "/content", <<>>),
       Step("route", "/about", <<>>),
       Step("route", "/session", <<>>),
       Step("route", "/message", <<>>),
       Step("route", "/read-messages", <<>>),
       Step("route", "/csrf", <<>>),
       Step("route", "/ip", <<>>),
       Step("route", "/validation", <<>>),
       Step("layer", "", <<"InnerMessagesManager">>),
       Step("nest_service", "/assets", <<>>),
       Step("layer", "", OuterLayers),
       Step("route_layer", "", <<"track_metrics">>),
       Step("route", "/healthz", <<>>) >>

Paths == { BuildSteps[i].path : i \in {j \in 1..Len(BuildSteps) :
                                        BuildSteps[j].path # ""} }

NotRegistered == << "unregistered" >>

\* One builder call applied to the router built so far.
ApplyStep(router, step) ==
    IF step.op \in {"route", "nest_service"}
    THEN [router EXCEPT ![step.path] = <<>>]
    ELSE [p \in Paths |-> IF router[p] = NotRegistered
                          THEN NotRegistered
                          ELSE step.layers \o router[p]]

RECURSIVE Build(_)
Build(n) ==
    IF n = 0 THEN [p \in Paths |-> NotRegistered]
    ELSE ApplyStep(Build(n - 1), BuildSteps[n])

\* The router returned by route: each path's layers, outermost first.
route == Build(Len(BuildSteps))

\* The endpoints: method and path, and whether an extractor of the handler
\* can reject the request (Form, ValidatedForm).
Endpoint(m, p, rej) == [method |-> m, path |-> p, rejects |-> rej]

Endpoints ==
    { Endpoint("GET", "/", FALSE), Endpoint("GET", "/content", FALSE),
      Endpoint("GET", "/about", FALSE), Endpoint("GET", "/session", FALSE),
      Endpoint("GET", "/message", FALSE),
      Endpoint("GET", "/read-messages", FALSE),
      Endpoint("GET", "/csrf", FALSE), Endpoint("POST", "/csrf", TRUE),
      Endpoint("GET", "/ip", FALSE), Endpoint("GET", "/validation", FALSE),
      Endpoint("POST", "/validation", TRUE),
      Endpoint("GET", "/assets", FALSE), Endpoint("GET", "/healthz", FALSE) }

NoEndpoint == Endpoint("", "", FALSE)

\* Position of a layer in a stack, 0 when the stack does not hold it.
IndexOf(stack, layer) ==
    IF \E i \in 1..Len(stack) : stack[i] = layer
    THEN CHOOSE i \in 1..Len(stack) : stack[i] = layer
    ELSE 0

Elapsed == IF rArmedAt = NoTime THEN 0 ELSE rClock - rArmedAt

\* A sleep that completes a second late.
TimeoutExpiredLate(e) == e >= TIMEOUT_SECS + 1

\* tower-http Timeout: the sleep of TIMEOUT_SECS has completed.
TimeoutExpired(e) == e >= TIMEOUT_SECS

\* The request is inside the service wrapped by the timeout layer.
InsideTimeout ==
    /\ rArmedAt # NoTime
    /\ rPc \in {"inbound", "handler", "outbound"}
    /\ rIdx >= IndexOf(rStack, "Timeout")

InitRoute ==
    /\ rPc = "idle"
    /\ rEndpoint = NoEndpoint
    /\ rClientId = NoId
    /\ rHeader = NoId
    /\ rStack = <<>>
    /\ rIdx = 0
    /\ rPassed = <<>>
    /\ rPropId = NoId
    /\ rClock = 0
    /\ rArmedAt = NoTime
    /\ rRespAt = NoTime
    /\ rResp = NoResp

\* A request arrives and the router matches its path.
Arrive ==
    /\ rPc = "idle"
    /\ \E e \in Endpoints, cid \in ClientIds \cup {NoId} :
        /\ rEndpoint' = e
        /\ rClientId' = cid
        /\ rHeader' = cid
        /\ rStack' = route[e.path]
    /\ rPc' = "inbound"
    /\ UNCHANGED <<rIdx, rPassed, rPropId, rClock, rArmedAt, rRespAt, rResp>>
    /\ UNCHANGED notRoute

\* The request enters the next layer around its route.
EnterLayer ==
    /\ rPc = "inbound"
    /\ rIdx < Len(rStack)
    /\ LET layer == rStack[rIdx + 1] IN
        /\ rPassed' = Append(rPassed, layer)
        /\ rIdx' = rIdx + 1
        \* SetRequestId: only a request without the header gets a new id.
        /\ rHeader' = IF layer = "SetRequestId" /\ rHeader = NoId
                      THEN GeneratedUuid ELSE rHeader
        \* PropagateRequestId: remembers the request's header.
        /\ rPropId' = IF layer = "PropagateRequestId" THEN rHeader ELSE rPropId
        \* Timeout: the sleep starts.
        /\ rArmedAt' = IF layer = "Timeout" THEN rClock ELSE rArmedAt
    /\ UNCHANGED <<rPc, rEndpoint, rClientId, rStack, rClock, rRespAt, rResp>>
    /\ UNCHANGED notRoute

\* Every layer is entered: the handler of the route starts.
Dispatch ==
    /\ rPc = "inbound"
    /\ rIdx = Len(rStack)
    /\ rPc' = "handler"
    /\ UNCHANGED <<rEndpoint, rClientId, rHeader, rStack, rIdx, rPassed,
                   rPropId, rClock, rArmedAt, rRespAt, rResp>>
    /\ UNCHANGED notRoute

\* A second passes.  The runtime wakes the timeout layer when its sleep
\* completes, so time does not pass beyond that point inside the layer.
Tick ==
    /\ rPc \in {"inbound", "handler", "outbound"}
    /\ rClock < MaxClock
    /\ InsideTimeout => ~TimeoutExpired(Elapsed)
    /\ rClock' = rClock + 1
    /\ UNCHANGED <<rPc, rEndpoint, rClientId, rHeader, rStack, rIdx, rPassed,
                   rPropId, rArmedAt, rRespAt, rResp>>
    /\ UNCHANGED notRoute

\* The handler, or an extractor of it, produces the response.
HandlerRespond ==
    /\ rPc = "handler"
    /\ \E outcome \in {"handler"} \cup
                      (IF rEndpoint.rejects THEN {"rejection"} ELSE {}) :
        rResp' = [status |-> IF outcome = "handler" THEN 200 ELSE 400,
                  from |-> outcome, headers |-> <<>>]
    /\ rPc' = "outbound"
    /\ UNCHANGED <<rEndpoint, rClientId, rHeader, rStack, rIdx, rPassed,
                   rPropId, rClock, rArmedAt, rRespAt>>
    /\ UNCHANGED notRoute

\* The response leaves the innermost layer it is still inside of.
LeaveLayer ==
    /\ rPc = "outbound"
    /\ rIdx > 0
    /\ LET layer == rStack[rIdx] IN
        \* PropagateRequestId: a response without the header gets the id
        \* captured from the request.
        /\ rResp' = IF /\ layer = "PropagateRequestId"
                       /\ rPropId # NoId
                       /\ ~\E i \in 1..Len(rResp.headers) :
                              rResp.headers[i][1] = REQUEST_ID_HEADER
                    THEN [rResp EXCEPT !.headers =
                            Append(@, <<REQUEST_ID_HEADER, rPropId>>)]
                    ELSE rResp
        /\ rRespAt' = IF layer = "Timeout" THEN Elapsed ELSE rRespAt
    /\ rIdx' = rIdx - 1
    /\ UNCHANGED <<rPc, rEndpoint, rClientId, rHeader, rStack, rPassed,
                   rPropId, rClock, rArmedAt>>
    /\ UNCHANGED notRoute

\* The sleep of the timeout layer completes first: the layer drops the inner
\* service's future and answers 408 itself.
TimeoutFire ==
    /\ InsideTimeout
    /\ TimeoutExpired(Elapsed)
    /\ rResp' = [status |-> 408, from |-> "timeout", headers |-> <<>>]
    /\ rRespAt' = Elapsed
    /\ rPc' = "outbound"
    /\ rIdx' = IndexOf(rStack, "Timeout") - 1
    /\ UNCHANGED <<rEndpoint, rClientId, rHeader, rStack, rPassed, rPropId,
                   rClock, rArmedAt>>
    /\ UNCHANGED notRoute

\* The response has left every layer and is sent to the client.
Deliver ==
    /\ rPc = "outbound"
    /\ rIdx = 0
    /\ rPc' = "done"
    /\ UNCHANGED <<rEndpoint, rClientId, rHeader, rStack, rIdx, rPassed,
                   rPropId, rClock, rArmedAt, rRespAt, rResp>>
    /\ UNCHANGED notRoute

NextRoute ==
    \/ Arrive
    \/ EnterLayer
    \/ Dispatch
    \/ Tick
    \/ HandlerRespond
    \/ LeaveLayer
    \/ TimeoutFire
    \/ Deliver

Range(s) == { s[i] : i \in 1..Len(s) }

\* The value of a response header, NoId when the response does not carry it.
HeaderValue(resp, name) ==
    IF \E i \in 1..Len(resp.headers) : resp.headers[i][1] = name
    THEN resp.headers[CHOOSE i \in 1..Len(resp.headers) :
                        resp.headers[i][1] = name][2]
    ELSE NoId

\* The layers a request has entered, track_metrics and the inner
\* MessagesManagerLayer left out.
IsStackLayer(l) == l \notin {"track_metrics", "InnerMessagesManager"}
PassedStack == SelectSeq(rPassed, IsStackLayer)

ClaimedOrder ==
    << "SetRequestId", "Trace", "SessionManager", "MessagesManager", "Csrf",
       "ClientIpSource", "Timeout", "PropagateRequestId" >>

\* C2 as stated: every request that reaches a handler, /healthz and /assets
\* included, has entered the eight layers in the claimed order.
C2_AllRoutesLayered ==
    rPc = "handler" => PassedStack = ClaimedOrder

\* C2 amended: every request that reaches a handler of a route other than
\* /healthz has entered the eight layers in the claimed order, none skipped;
\* a request to /healthz reaches its handler having entered no layer at all.
C2_LayeredExceptHealthz ==
    rPc = "handler" =>
        IF rEndpoint.path = "/healthz"
        THEN rPassed = <<>>
        ELSE PassedStack = ClaimedOrder

C2_Witness ==
    /\ rPc = "handler"
    /\ rEndpoint.path = "/assets"
    /\ PassedStack = ClaimedOrder

\* C3: every response to a request that entered the stack carries an
\* x-request-id header equal to the id the client sent, or to the generated
\* UUID when the client sent none, whatever produced the response.
C3_RequestIdOnEveryResponse ==
    (rPc = "done" /\ "SetRequestId" \in Range(rPassed)) =>
        HeaderValue(rResp, REQUEST_ID_HEADER) =
            IF rClientId # NoId THEN rClientId ELSE GeneratedUuid

\* C7: a request gets its response from the timeout layer within 10 seconds
\* of reaching it; a response after 10 seconds without one from the handler
\* is the layer's 408, and then the handler's response is not the one sent.
C7_Timeout ==
    /\ InsideTimeout => Elapsed <= 10
    /\ rRespAt # NoTime => rRespAt <= 10
    /\ rResp.from = "timeout" => rResp.status = 408 /\ rRespAt = 10
    /\ (rPc = "done" /\ "Timeout" \in Range(rPassed)) =>
          \/ rResp.from \in {"handler", "rejection"} /\ rResp.status # 408
          \/ rResp.from = "timeout"

C7_Witness ==
    /\ rPc = "done"
    /\ rResp.from = "timeout"
    /\ rResp.status = 408
    /\ rRespAt = 10

-----------------------------------------------------------------------------
(* router.rs: the session store, the SessionManagerLayer with its expiry,  *)
(* the two MessagesManagerLayers, and the handlers that use the session.   *)

COUNTER_KEY == "counter"

\* Expiry::OnInactivity(Duration::seconds(10))
EXPIRY_SECS == 10

Clients == {"c1", "c2"}
SessionRoutes == {"/session", "/message", "/read-messages", "/about"}

\* Bounds of the model.
MaxRequests == 3
NSlots == 2

Slots == 1..NSlots
SessionIds == 1..MaxRequests
NoSession == 0
NoValue == 0 - 1

Message(level, text) == [level |-> level, text |-> text]

\* axum-messages Data, stored in the session under its own key; present is
\* FALSE while the session holds no value under that key.
MsgData(present, pending, messages) ==
    [present |-> present, pending |-> pending, messages |-> messages]

NoData == MsgData(FALSE, <<>>, <<>>)

\* The data of a session record: the value under COUNTER_KEY (NoValue when
\* absent) and the value under the messages key.
EmptyData == [counter |-> NoValue, messages |-> NoData]

\* A record of the store.  Its expiry date is kept as expires_in, the
\* seconds left until that date (expiry_date - now), 0 once it has passed.
NoRecord == [data |-> EmptyData, expires_in |-> NoTime]

\* The Messages value of one layer for one request.
NoMessages == [pending |-> <<>>, messages |-> <<>>, modified |-> FALSE]

IdleReq ==
    [pc |-> "idle", client |-> "c1", route |-> "/about", hadCookie |-> FALSE,
     sid |-> NoSession, loaded |-> FALSE, data |-> EmptyData,
     modified |-> FALSE, outer |-> NoMessages, inner |-> NoMessages,
     counter |-> 0, body |-> "",
     xHits |-> 0, xQueued |-> FALSE, xPending |-> FALSE, xGap |-> "none",
     xChain |-> 0, xChainAny |-> 0]

\* MemoryStore::load keeps a record whose expiry date is in the future:
\* expiry_date > now.
IsActive(expires_in) == expires_in > 0

\* Session::expiry_date for Expiry::OnInactivity: now plus the duration.
ExpiryDate == EXPIRY_SECS

\* Session::get_record: the record is loaded from the store on first use; a
\* missing or expired record leaves a new, empty session without an id.
LoadRecord(r) ==
    IF r.loaded THEN r
    ELSE IF /\ r.sid # NoSession
            /\ store[r.sid] # NoRecord
            /\ IsActive(store[r.sid].expires_in)
         THEN [r EXCEPT !.loaded = TRUE, !.data = store[r.sid].data]
         ELSE [r EXCEPT !.loaded = TRUE, !.data = EmptyData,
                        !.sid = NoSession]

\* Session::insert on the counter key: the session is modified only when the
\* value differs from the one it holds.
InsertCounter(r, v) ==
    IF r.data.counter = v THEN r
    ELSE [r EXCEPT !.data.counter = v, !.modified = TRUE]

\* Session::insert on the messages key.
InsertMessages(r, d) ==
    IF r.data.messages = d THEN r
    ELSE [r EXCEPT !.data.messages = d, !.modified = TRUE]

\* MessagesManager, on the way in: reads the session's Data (the default
\* when absent) and loads it: the pending messages become the messages of
\* this request.
MessagesLoad(r) ==
    [pending |-> <<>>, messages |-> r.data.messages.pending,
     modified |-> FALSE]

\* A layer that writes its Data back whether or not it was modified.
MessagesSaveAlways(r, m) ==
    InsertMessages(r, MsgData(TRUE, m.pending, m.messages))

\* MessagesManager, on the way out: a modified Messages is saved to the
\* session.
MessagesSave(r, m) ==
    IF m.modified
    THEN InsertMessages(r, MsgData(TRUE, m.pending, m.messages))
    ELSE r

LevelName(level) == IF level = "info" THEN "Info" ELSE "Debug"

\* format!("{}: {}", message.level, message)
FormatMessage(m) == LevelName(m.level) \o ": " \o m.text

\* join(", ")
RECURSIVE Join(_)
Join(strs) ==
    IF Len(strs) = 0 THEN ""
    ELSE IF Len(strs) = 1 THEN strs[1]
    ELSE strs[1] \o ", " \o Join(Tail(strs))

\* The handler's response with the new counter instead of the one read.
SessionBodyNew(counter) == "Current count: " \o ToString(counter + 1)

\* format!("Current count: {}", counter.0)
SessionBody(counter) == "Current count: " \o ToString(counter)

InitSession ==
    /\ store = [s \in SessionIds |-> NoRecord]
    /\ nextId = 1
    /\ cookie = [c \in Clients |-> NoSession]
    /\ reqs = [p \in Slots |-> IdleReq]
    /\ nReq = 0
    /\ gHits = [s \in SessionIds |-> 0]
    /\ gSeen = [s \in SessionIds |-> {}]
    /\ gQueued = [s \in SessionIds |-> FALSE]
    /\ gLastReq = [c \in Clients |-> NoTime]
    /\ gLastTouch = [c \in Clients |-> NoTime]
    /\ gLastHit = [c \in Clients |-> NoTime]
    /\ gChain = [c \in Clients |-> 0]
    /\ gChainAny = [c \in Clients |-> 0]

\* A client sends a request with the session cookie it holds.
Start(p, c, r) ==
    /\ reqs[p].pc = "idle"
    /\ nReq < MaxRequests
    /\ nReq' = nReq + 1
    /\ reqs' = [reqs EXCEPT ![p] =
          [IdleReq EXCEPT
             !.pc = "outer_in", !.client = c, !.route = r,
             !.hadCookie = cookie[c] # NoSession, !.sid = cookie[c],
             !.xGap =
                IF gLastHit[c] # NoTime /\ gLastHit[c] < 10
                THEN "continues"
                ELSE IF gLastTouch[c] = NoTime \/ gLastTouch[c] >= 10
                     THEN "idle"
                     ELSE "open",
             !.xPending = cookie[c] # NoSession /\ gQueued[cookie[c]],
             !.xChain = gChain[c],
             !.xChainAny =
                IF gLastReq[c] = NoTime \/ gLastReq[c] >= 10
                THEN 0 ELSE gChainAny[c]]]
    /\ gChainAny' = [gChainAny EXCEPT ![c] =
          IF gLastReq[c] = NoTime \/ gLastReq[c] >= 10 THEN 0 ELSE @]
    /\ gLastReq' = [gLastReq EXCEPT ![c] = 0]
    /\ gLastTouch' = [gLastTouch EXCEPT ![c] = IF r = "/about" THEN @ ELSE 0]
    /\ UNCHANGED <<store, nextId, cookie, gHits, gSeen, gQueued,
                   gLastHit, gChain>>
    /\ UNCHANGED notSession

\* The outer MessagesManagerLayer (in the tuple of layers), on the way in.
OuterMessagesIn(p) ==
    /\ reqs[p].pc = "outer_in"
    /\ LET r == LoadRecord(reqs[p]) IN
        reqs' = [reqs EXCEPT ![p] =
                    [r EXCEPT !.outer = MessagesLoad(r), !.pc = "inner_in"]]
    /\ UNCHANGED <<store, nextId, cookie, nReq, gHits, gSeen, gQueued,
                   gLastReq, gLastTouch, gLastHit, gChain, gChainAny>>
    /\ UNCHANGED notSession

\* The inner MessagesManagerLayer (around the nine routes), on the way in.
\* Its Messages replace the outer layer's in the request's extensions.
InnerMessagesIn(p) ==
    /\ reqs[p].pc = "inner_in"
    /\ LET r == LoadRecord(reqs[p]) IN
        reqs' = [reqs EXCEPT ![p] =
                    [r EXCEPT !.inner = MessagesLoad(r), !.pc = "handler"]]
    /\ UNCHANGED <<store, nextId, cookie, nReq, gHits, gSeen, gQueued,
                   gLastReq, gLastTouch, gLastHit, gChain, gChainAny>>
    /\ UNCHANGED notSession

\* handler_session, first await: session.get(COUNTER_KEY), the default 0.
handler_session_get(p) ==
    /\ reqs[p].pc = "handler"
    /\ reqs[p].route = "/session"
    /\ LET r == LoadRecord(reqs[p]) IN
        reqs' = [reqs EXCEPT ![p] =
                    [r EXCEPT !.counter = IF r.data.counter = NoValue
                                          THEN 0 ELSE r.data.counter,
                              !.pc = "handler_insert"]]
    /\ UNCHANGED <<store, nextId, cookie, nReq, gHits, gSeen, gQueued,
                   gLastReq, gLastTouch, gLastHit, gChain, gChainAny>>
    /\ UNCHANGED notSession

\* handler_session, second await and the response.
handler_session_insert(p) ==
    /\ reqs[p].pc = "handler_insert"
    /\ LET r == InsertCounter(reqs[p], reqs[p].counter + 1) IN
        reqs' = [reqs EXCEPT ![p] =
                    [r EXCEPT !.body = SessionBody(r.counter),
                              !.pc = "inner_out"]]
    /\ UNCHANGED <<store, nextId, cookie, nReq, gHits, gSeen, gQueued,
                   gLastReq, gLastTouch, gLastHit, gChain, gChainAny>>
    /\ UNCHANGED notSession

\* set_messages_handler: two messages pushed, then the redirect.
set_messages_handler(p) ==
    /\ reqs[p].pc = "handler"
    /\ reqs[p].route = "/message"
    /\ reqs' = [reqs EXCEPT ![p] =
          [@ EXCEPT
             !.inner.pending =
                @ \o << Message("info", "Hello, world!"),
                        Message("debug", "This is a debug message.") >>,
             !.inner.modified = TRUE,
             !.body = "redirect:/read-messages",
             !.pc = "inner_out"]]
    /\ UNCHANGED <<store, nextId, cookie, nReq, gHits, gSeen, gQueued,
                   gLastReq, gLastTouch, gLastHit, gChain, gChainAny>>
    /\ UNCHANGED notSession

\* read_messages_handler: the iterator takes every message of the request.
read_messages_handler(p) ==
    /\ reqs[p].pc = "handler"
    /\ reqs[p].route = "/read-messages"
    /\ LET taken == reqs[p].inner.messages
           text == Join([i \in 1..Len(taken) |-> FormatMessage(taken[i])])
       IN reqs' = [reqs EXCEPT ![p] =
            [@ EXCEPT
               !.inner.messages = <<>>,
               !.inner.modified = @ \/ Len(taken) > 0,
               !.body = IF text = "" THEN "No messages yet!" ELSE text,
               !.pc = "inner_out"]]
    /\ UNCHANGED <<store, nextId, cookie, nReq, gHits, gSeen, gQueued,
                   gLastReq, gLastTouch, gLastHit, gChain, gChainAny>>
    /\ UNCHANGED notSession

\* handler_about: renders a template, the session is not used.
handler_about(p) ==
    /\ reqs[p].pc = "handler"
    /\ reqs[p].route = "/about"
    /\ reqs' = [reqs EXCEPT ![p] = [@ EXCEPT !.body = "about",
                                              !.pc = "inner_out"]]
    /\ UNCHANGED <<store, nextId, cookie, nReq, gHits, gSeen, gQueued,
                   gLastReq, gLastTouch, gLastHit, gChain, gChainAny>>
    /\ UNCHANGED notSession

\* The inner MessagesManagerLayer, on the way out.
InnerMessagesOut(p) ==
    /\ reqs[p].pc = "inner_out"
    /\ reqs' = [reqs EXCEPT ![p] =
                  [MessagesSave(reqs[p], reqs[p].inner)
                     EXCEPT !.pc = "outer_out"]]
    /\ UNCHANGED <<store, nextId, cookie, nReq, gHits, gSeen, gQueued,
                   gLastReq, gLastTouch, gLastHit, gChain, gChainAny>>
    /\ UNCHANGED notSession

\* The outer MessagesManagerLayer, on the way out.
OuterMessagesOut(p) ==
    /\ reqs[p].pc = "outer_out"
    /\ reqs' = [reqs EXCEPT ![p] =
                  [MessagesSave(reqs[p], reqs[p].outer)
                     EXCEPT !.pc = "session_out"]]
    /\ UNCHANGED <<store, nextId, cookie, nReq, gHits, gSeen, gQueued,
                   gLastReq, gLastTouch, gLastHit, gChain, gChainAny>>
    /\ UNCHANGED notSession

\* Session::is_empty.
IsEmpty(r) == r.sid = NoSession /\ r.data = EmptyData

\* A layer configured with always_save.
MustSaveAlways(r) == ~IsEmpty(r)

\* SessionManager, on the way out: a modified, non-empty session is saved.
MustSave(r) == r.modified /\ ~IsEmpty(r)

\* SessionManager, on the way out.  An empty session that came with a cookie
\* has the cookie removed; a session to save gets a new expiry date, an id
\* from the store when it has none, and its cookie set.
SessionOut(p) ==
    /\ reqs[p].pc = "session_out"
    /\ LET r == reqs[p]
           c == r.client
           removes == r.hadCookie /\ IsEmpty(r)
           saves == ~removes /\ MustSave(r)
           id == IF r.sid = NoSession THEN nextId ELSE r.sid
           final == IF saves THEN id ELSE r.sid
       IN
        /\ store' = IF saves
                    THEN [store EXCEPT ![id] =
                            [data |-> r.data,
                             expires_in |-> ExpiryDate]]
                    ELSE store
        /\ nextId' = IF saves /\ r.sid = NoSession THEN nextId + 1 ELSE nextId
        /\ cookie' = IF removes THEN [cookie EXCEPT ![c] = NoSession]
                     ELSE IF saves THEN [cookie EXCEPT ![c] = id]
                     ELSE cookie
        /\ reqs' = [reqs EXCEPT ![p] =
              [r EXCEPT !.pc = "done", !.sid = final,
                        !.xHits = IF r.sid = NoSession THEN 0
                                  ELSE gHits[r.sid],
                        !.xQueued = r.sid # NoSession /\ gQueued[r.sid]]]
        /\ gHits' = IF r.route = "/session"
                    THEN [gHits EXCEPT ![final] = @ + 1] ELSE gHits
        /\ gSeen' = IF r.route = "/session"
                    THEN [gSeen EXCEPT ![final] = @ \cup {r.body}] ELSE gSeen
        /\ gQueued' = IF final = NoSession THEN gQueued
                      ELSE IF r.route = "/message"
                      THEN [gQueued EXCEPT ![final] = TRUE]
                      ELSE IF r.route = "/read-messages"
                      THEN [gQueued EXCEPT ![final] = FALSE]
                      ELSE gQueued
        /\ gLastHit' = IF r.route = "/session"
                       THEN [gLastHit EXCEPT ![c] = 0] ELSE gLastHit
        /\ gChain' = IF r.route = "/session"
                     THEN [gChain EXCEPT ![c] = r.counter + 1] ELSE gChain
        /\ gChainAny' = IF r.route = "/session"
                        THEN [gChainAny EXCEPT ![c] = @ + 1] ELSE gChainAny
    /\ UNCHANGED <<nReq, gLastReq, gLastTouch>>
    /\ UNCHANGED notSession

\* The response is with the client; the slot is free again.
Finish(p) ==
    /\ reqs[p].pc = "done"
    /\ reqs' = [reqs EXCEPT ![p] = IdleReq]
    /\ UNCHANGED <<store, nextId, cookie, nReq, gHits, gSeen, gQueued,
                   gLastReq, gLastTouch, gLastHit, gChain, gChainAny>>
    /\ UNCHANGED notSession

Quiescent == \A p \in Slots : reqs[p].pc = "idle"

\* Seconds are counted up to the length of the expiry window.
Older(age) ==
    IF age = NoTime \/ age >= EXPIRY_SECS THEN age ELSE age + 1

\* A second passes between two requests.
TickSession ==
    /\ Quiescent
    /\ store' = [s \in SessionIds |->
                    IF store[s] = NoRecord \/ store[s].expires_in = 0
                    THEN store[s]
                    ELSE [store[s] EXCEPT !.expires_in = @ - 1]]
    /\ gLastReq' = [c \in Clients |-> Older(gLastReq[c])]
    /\ gLastTouch' = [c \in Clients |-> Older(gLastTouch[c])]
    /\ gLastHit' = [c \in Clients |-> Older(gLastHit[c])]
    /\ UNCHANGED <<nextId, cookie, reqs, nReq, gHits, gSeen, gQueued,
                   gChain, gChainAny>>
    /\ UNCHANGED notSession

\* Sequential requests: one request at a time, of any client and route.
StartSeq ==
    /\ Quiescent
    /\ \E c \in Clients, r \in SessionRoutes : Start(1, c, r)

NextSession ==
    \/ StartSeq
    \/ OuterMessagesIn(1)
    \/ InnerMessagesIn(1)
    \/ handler_session_get(1)
    \/ handler_session_insert(1)
    \/ set_messages_handler(1)
    \/ read_messages_handler(1)
    \/ handler_about(1)
    \/ InnerMessagesOut(1)
    \/ OuterMessagesOut(1)
    \/ SessionOut(1)
    \/ Finish(1)
    \/ TickSession


\* Concurrent requests: GET /session requests of one client, in any
\* interleaving of their steps.
StartConc(p) == Start(p, "c1", "/session")

NextConc ==
    \E p \in Slots :
        \/ StartConc(p)
        \/ OuterMessagesIn(p)
        \/ InnerMessagesIn(p)
        \/ handler_session_get(p)
        \/ handler_session_insert(p)
        \/ InnerMessagesOut(p)
        \/ OuterMessagesOut(p)
        \/ SessionOut(p)
        \/ Finish(p)


BothMessages ==
    LevelName("info") \o ": " \o "Hello, world!" \o ", " \o
    LevelName("debug") \o ": " \o "This is a debug message."

Done(p, route_) == reqs[p].pc = "done" /\ reqs[p].route = route_

\* C1: the k-th GET /session of a session answers "Current count: k-1" and
\* leaves k stored under "counter"; a session's stored count is the number
\* of its own GET /session requests, whatever other sessions do.
C1_SessionCounter ==
    /\ \A p \in Slots : Done(p, "/session") =>
          /\ reqs[p].body = "Current count: " \o ToString(reqs[p].xHits)
          /\ reqs[p].sid # NoSession
          /\ store[reqs[p].sid].data.counter = reqs[p].xHits + 1
    /\ \A s \in SessionIds : gHits[s] > 0 =>
          store[s].data.counter = gHits[s]

C1_Witness ==
    \E p \in Slots :
        /\ Done(p, "/session")
        /\ reqs[p].xHits = 1
        /\ reqs[p].body = "Current count: 1"
        /\ \E s \in SessionIds \ {reqs[p].sid} : gHits[s] = 1

\* C6: GET /message redirects to /read-messages; a GET /read-messages in a
\* session with a GET /message and no read since answers both messages, in
\* order, each "{level}: {text}", joined by ", "; any other GET
\* /read-messages answers "No messages yet!"; with both MessagesManagerLayers.
C6_FlashMessages ==
    \A p \in Slots :
        /\ Done(p, "/message") => reqs[p].body = "redirect:/read-messages"
        /\ Done(p, "/read-messages") =>
              reqs[p].body = IF reqs[p].xQueued THEN BothMessages
                             ELSE "No messages yet!"

C6_Witness ==
    \E p \in Slots :
        /\ Done(p, "/read-messages")
        /\ reqs[p].xQueued
        /\ reqs[p].body = BothMessages

\* C8 as stated: the counter survives as long as consecutive requests of the
\* client, of any route, are less than 10 seconds apart.
C8_EveryRequestRenews ==
    \A p \in Slots :
        Done(p, "/session") => reqs[p].counter = reqs[p].xChainAny

\* C8 amended: the counter and the pending messages survive as long as
\* consecutive GET /session requests are less than 10 seconds apart; GET
\* /about does not renew the window; after 10 seconds or more with no other
\* request than GET /about, GET /session answers 0 and GET /read-messages
\* "No messages yet!"; a count from before an expiry is not seen again.
C8_SessionRequestsRenew ==
    \A p \in Slots :
        /\ Done(p, "/session") =>
              /\ reqs[p].xGap = "continues" =>
                    reqs[p].counter = reqs[p].xChain
              /\ reqs[p].xGap = "idle" => reqs[p].counter = 0
              /\ reqs[p].counter \in {0, reqs[p].xChain}
        /\ Done(p, "/read-messages") =>
              /\ (reqs[p].xGap = "continues" /\ reqs[p].xPending) =>
                    reqs[p].body = BothMessages
              /\ reqs[p].xGap = "idle" => reqs[p].body = "No messages yet!"

\* A GET /session after 10 idle seconds, in a session that counted before.
C8_Witness ==
    \E p \in Slots :
        /\ Done(p, "/session")
        /\ reqs[p].xGap = "idle"
        /\ reqs[p].xChain = 1
        /\ reqs[p].body = "Current count: 0"

\* C9: once N concurrent GET /session requests of a session have completed,
\* the stored counter has grown by N and the N responses are distinct.
C9_NoLostUpdate ==
    Quiescent =>
        \A s \in SessionIds : gHits[s] > 0 =>
            /\ store[s].data.counter = gHits[s]
            /\ Cardinality(gSeen[s]) = gHits[s]

-----------------------------------------------------------------------------
(* router.rs: POST /validation.  ValidatedForm::from_request runs the Form *)
(* extractor and then validate(); either error becomes a ServerError, and  *)
(* ServerError::into_response makes the response.                          *)

\* A name is a sequence of characters.
Chars == {"a", "b", "c"}

\* Bound of the model: the longest name.
MaxNameLen == 3

Names == UNION { [1..n -> Chars] : n \in 0..MaxNameLen }

\* The ways the Form extractor rejects a request (FormRejection).
Rejections ==
    { "InvalidFormContentType", "FailedToDeserializeForm",
      "FailedToDeserializeFormBody", "BytesRejection" }

FormInput(kind, name) == [kind |-> kind, name |-> name]

FormInputs ==
    { FormInput("form", n) : n \in Names } \cup
    { FormInput(k, <<>>) : k \in Rejections }

NoInput == FormInput("none", <<>>)
NoError == [variant |-> "none", detail |-> ""]
NoFormResp == [status |-> 0, body |-> ""]

RECURSIVE NameString(_)
NameString(name) ==
    IF Len(name) = 0 THEN "" ELSE name[1] \o NameString(Tail(name))

\* NameInput: #[validate(length(min = 2, ...))] counts characters.
Validate(name) == Len(name) >= 2

\* The status a FormRejection would answer with by itself.
RejectionStatus(kind) ==
    CASE kind = "InvalidFormContentType" -> 415
      [] kind = "FailedToDeserializeFormBody" -> 422
      [] kind = "BytesRejection" -> 413
      [] OTHER -> 400

\* A response that keeps the rejection's own status.
into_response_own_status(err) ==
    IF err.variant = "ValidationError"
    THEN [status |-> 400,
          body |-> "Input validation error: [" \o err.detail \o "]"]
    ELSE [status |-> RejectionStatus(err.detail), body |-> err.detail]

\* ServerError::into_response: BAD_REQUEST for both variants.
into_response(err) ==
    IF err.variant = "ValidationError"
    THEN [status |-> 400,
          body |-> "Input validation error: [" \o err.detail \o "]"]
    ELSE [status |-> 400, body |-> err.detail]

InitForm ==
    /\ fPc = "idle"
    /\ fInput = NoInput
    /\ fValue = <<>>
    /\ fError = NoError
    /\ fResp = NoFormResp

\* A POST /validation request arrives.
FormArrive ==
    /\ fPc = "idle"
    /\ \E i \in FormInputs : fInput' = i
    /\ fPc' = "extract"
    /\ UNCHANGED <<fValue, fError, fResp>>
    /\ UNCHANGED notForm

\* from_request: Form::<T>::from_request(req, state).await?
from_request_form ==
    /\ fPc = "extract"
    /\ IF fInput.kind = "form"
       THEN /\ fValue' = fInput.name
            /\ fPc' = "validate"
            /\ UNCHANGED fError
       ELSE /\ fError' = [variant |-> "AxumFormRejection",
                          detail |-> fInput.kind]
            /\ fPc' = "rejected"
            /\ UNCHANGED fValue
    /\ UNCHANGED <<fInput, fResp>>
    /\ UNCHANGED notForm

\* from_request: value.validate()?
from_request_validate ==
    /\ fPc = "validate"
    /\ IF Validate(fValue)
       THEN /\ fPc' = "handler"
            /\ UNCHANGED fError
       ELSE /\ fError' = [variant |-> "ValidationError",
                          detail |-> "name: Can not be empty"]
            /\ fPc' = "rejected"
    /\ UNCHANGED <<fInput, fValue, fResp>>
    /\ UNCHANGED notForm

\* post_validation_handler
post_validation_handler ==
    /\ fPc = "handler"
    /\ fResp' = [status |-> 200,
                 body |-> "<h1>Hello, " \o NameString(fValue) \o "!</h1>"]
    /\ fPc' = "done"
    /\ UNCHANGED <<fInput, fValue, fError>>
    /\ UNCHANGED notForm

\* The rejection of the extractor becomes the response.
RejectionResponse ==
    /\ fPc = "rejected"
    /\ fResp' = into_response(fError)
    /\ fPc' = "done"
    /\ UNCHANGED <<fInput, fValue, fError>>
    /\ UNCHANGED notForm

NextForm ==
    \/ FormArrive
    \/ from_request_form
    \/ from_request_validate
    \/ post_validation_handler
    \/ RejectionResponse


StartsWith(str, prefix) ==
    Len(str) >= Len(prefix) /\ SubSeq(str, 1, Len(prefix)) = prefix

\* C4: POST /validation answers 400 when the form cannot be deserialized,
\* 400 with a body starting "Input validation error: [" when name has fewer
\* than 2 characters, and 200 "<h1>Hello, {name}!</h1>" otherwise; the
\* handler runs only on a name of at least 2 characters; no other status.
C4_Validation ==
    /\ fPc = "handler" => fInput.kind = "form" /\ Len(fInput.name) >= 2
    /\ fPc = "done" =>
        /\ fResp.status \in {200, 400}
        /\ fInput.kind # "form" =>
              fResp.status = 400 /\ fError.variant = "AxumFormRejection"
        /\ (fInput.kind = "form" /\ Len(fInput.name) < 2) =>
              /\ fResp.status = 400
              /\ fError.variant = "ValidationError"
              /\ StartsWith(fResp.body, "Input validation error: [")
        /\ (fInput.kind = "form" /\ Len(fInput.name) >= 2) =>
              /\ fResp.status = 200
              /\ fResp.body =
                    "<h1>Hello, " \o NameString(fInput.name) \o "!</h1>"

C4_Witness ==
    /\ fPc = "done"
    /\ fInput.kind = "InvalidFormContentType"
    /\ fResp.status = 400

-----------------------------------------------------------------------------
(* router.rs: csrf_root and csrf_check_key, with the CsrfConfig of route.  *)
(* The CsrfToken extractor takes the token of the request's cookie, or a   *)
(* new random token when the request has none; authenticity_token() is a   *)
(* hash of the token under a new random salt; verify() checks a hash       *)
(* against the token.                                                      *)

\* Bounds of the model: random tokens and salts drawn.
MaxTokens == 3
MaxSalts == 3

NoToken == 0

\* A form value that is no hash of any token.
Garbage == [token |-> 0, salt |-> 0]

NoLast ==
    [method |-> "none", client |-> "c1", sent |-> NoToken, form |-> Garbage,
     rendered |-> Garbage, set |-> NoToken, body |-> ""]

\* CsrfToken::authenticity_token: the hash of the token under a salt.
Hash(token, salt) == [token |-> token, salt |-> salt]

\* A check that accepts the hash of any token.
VerifyAnyHash(token, form) == form # Garbage

\* CsrfToken::verify: the form value is a hash of this token.
Verify(token, form) == form # Garbage /\ form.token = token

AllIssued == UNION { { i.value : i \in cIssued[c] } : c \in Clients }

InitCsrf ==
    /\ cCookie = [c \in Clients |-> NoToken]
    /\ cIssued = [c \in Clients |-> {}]
    /\ cNextToken = 1
    /\ cNextSalt = 1
    /\ cLast = NoLast

\* csrf_root: renders the authenticity token and returns the CsrfToken with
\* the response, which sets the cookie.
csrf_root(c) ==
    /\ cNextSalt <= MaxSalts
    /\ cCookie[c] = NoToken => cNextToken <= MaxTokens
    /\ LET token == IF cCookie[c] = NoToken THEN cNextToken ELSE cCookie[c]
           value == Hash(token, cNextSalt)
       IN
        /\ cIssued' = [cIssued EXCEPT ![c] =
                          @ \cup {[cookie |-> token, value |-> value]}]
        /\ cCookie' = [cCookie EXCEPT ![c] = token]
        /\ cLast' = [method |-> "GET", client |-> c, sent |-> cCookie[c],
                     form |-> Garbage, rendered |-> value, set |-> token,
                     body |-> "csrf"]
        /\ cNextToken' = IF cCookie[c] = NoToken
                         THEN cNextToken + 1 ELSE cNextToken
    /\ cNextSalt' = cNextSalt + 1
    /\ UNCHANGED notCsrf

\* csrf_check_key: verifies the form's authenticity_token.
csrf_check_key(c, form) ==
    /\ cCookie[c] = NoToken => cNextToken <= MaxTokens
    /\ LET token == IF cCookie[c] = NoToken THEN cNextToken ELSE cCookie[c]
       IN
        /\ cLast' = [method |-> "POST", client |-> c, sent |-> cCookie[c],
                     form |-> form, rendered |-> Garbage, set |-> NoToken,
                     body |-> IF Verify(token, form)
                              THEN "Token is Valid lets do stuff!"
                              ELSE "Token is invalid"]
        /\ cNextToken' = IF cCookie[c] = NoToken
                         THEN cNextToken + 1 ELSE cNextToken
    /\ UNCHANGED <<cCookie, cIssued, cNextSalt>>
    /\ UNCHANGED notCsrf

\* The client's cookie is gone (its lifetime ended, or it was cleared).
ForgetCookie(c) ==
    /\ cCookie[c] # NoToken
    /\ cCookie' = [cCookie EXCEPT ![c] = NoToken]
    /\ UNCHANGED <<cIssued, cNextToken, cNextSalt, cLast>>
    /\ UNCHANGED notCsrf

NextCsrf ==
    \E c \in Clients :
        \/ csrf_root(c)
        \/ \E form \in AllIssued \cup {Garbage} : csrf_check_key(c, form)
        \/ ForgetCookie(c)


Valid == "Token is Valid lets do stuff!"
Invalid == "Token is invalid"

\* GET /csrf sets the cookie and renders a hash of the cookie's token.
CsrfGetSetsCookie ==
    cLast.method = "GET" =>
        /\ cLast.set # NoToken
        /\ cLast.rendered # Garbage
        /\ [cookie |-> cLast.set, value |-> cLast.rendered]
              \in cIssued[cLast.client]

-----------------------------------------------------------------------------
(* main.rs: main joins start_main_server and start_metrics_server.         *)

\* layout, home, content, about, csrf, validation
TemplateCount == 6

InitMain ==
    /\ mPc = "init_tracing"
    /\ mServer = "templates"
    /\ mTemplates = 0
    /\ mServerRes = "pending"
    /\ mShutdown = FALSE
    /\ mMetrics = "running"
    /\ mMetricsRes = "pending"
    /\ mResult = "none"

\* main: helpers::init_tracing()
InitTracing ==
    /\ mPc = "init_tracing"
    /\ mPc' = "settings"
    /\ UNCHANGED <<mServer, mTemplates, mServerRes, mShutdown, mMetrics,
                   mMetricsRes, mResult>>
    /\ UNCHANGED notMain

\* main: settings::Settings::new(), then the two futures are joined.
LoadSettings ==
    /\ mPc = "settings"
    /\ mPc' = "join"
    /\ UNCHANGED <<mServer, mTemplates, mServerRes, mShutdown, mMetrics,
                   mMetricsRes, mResult>>
    /\ UNCHANGED notMain

\* start_main_server: env.add_template(...)?, one template at a time.
AddTemplate ==
    /\ mPc = "join"
    /\ mServer = "templates"
    /\ \E ok \in BOOLEAN :
        IF ok
        THEN /\ mTemplates' = mTemplates + 1
             /\ mServer' = IF mTemplates + 1 = TemplateCount
                           THEN "bind" ELSE "templates"
             /\ UNCHANGED mServerRes
        ELSE /\ mServer' = "done"
             /\ mServerRes' = "err_template"
             /\ UNCHANGED mTemplates
    /\ UNCHANGED <<mPc, mShutdown, mMetrics, mMetricsRes, mResult>>
    /\ UNCHANGED notMain

\* start_main_server: TcpListener::bind("0.0.0.0:3000").await?
Bind ==
    /\ mPc = "join"
    /\ mServer = "bind"
    /\ \E ok \in BOOLEAN :
        IF ok
        THEN mServer' = "serve" /\ UNCHANGED mServerRes
        ELSE mServer' = "done" /\ mServerRes' = "err_bind"
    /\ UNCHANGED <<mPc, mTemplates, mShutdown, mMetrics, mMetricsRes,
                   mResult>>
    /\ UNCHANGED notMain

\* helpers::shutdown_signal() completes.
ShutdownSignal ==
    /\ mPc = "join"
    /\ ~mShutdown
    /\ mShutdown' = TRUE
    /\ UNCHANGED <<mPc, mServer, mTemplates, mServerRes, mMetrics,
                   mMetricsRes, mResult>>
    /\ UNCHANGED notMain

\* start_main_server: axum::serve(...).with_graceful_shutdown(...).await?
\* ends with Ok after the shutdown signal, or with an error.
ServeEnds ==
    /\ mPc = "join"
    /\ mServer = "serve"
    /\ \E res \in {"ok", "err_serve"} :
        /\ res = "ok" => mShutdown
        /\ mServerRes' = res
    /\ mServer' = "done"
    /\ UNCHANGED <<mPc, mTemplates, mShutdown, mMetrics, mMetricsRes,
                   mResult>>
    /\ UNCHANGED notMain

\* metric::start_metrics_server ends, with either result.
MetricsEnds ==
    /\ mPc = "join"
    /\ mMetrics = "running"
    /\ \E res \in {"ok", "err"} : mMetricsRes' = res
    /\ mMetrics' = "done"
    /\ UNCHANGED <<mPc, mServer, mTemplates, mServerRes, mShutdown, mResult>>
    /\ UNCHANGED notMain

\* A main that hands on the main server's error.
MainResultPropagates == IF mServerRes = "ok" THEN "ok" ELSE "err"

\* main: both results are bound to unused names; main ends with Ok(()).
MainResult == "ok"

\* tokio::join!: ready when both futures have completed.
JoinReady == mServer = "done" /\ mMetrics = "done"

\* main returns.
MainReturn ==
    /\ mPc = "join"
    /\ JoinReady
    /\ mPc' = "returned"
    /\ mResult' = MainResult
    /\ UNCHANGED <<mServer, mTemplates, mServerRes, mShutdown, mMetrics,
                   mMetricsRes>>
    /\ UNCHANGED notMain

NextMain ==
    \/ InitTracing
    \/ LoadSettings
    \/ AddTemplate
    \/ Bind
    \/ ShutdownSignal
    \/ ServeEnds
    \/ MetricsEnds
    \/ MainReturn


ServerFails == mServerRes = "pending" /\ mServerRes' \notin {"pending", "ok"}

\* C10: main returns only after both servers have ended and always returns
\* Ok(()); a failure of the main server leaves the metrics server as it is.
C10_MainLifecycle ==
    /\ [](mPc = "returned" =>
            mServer = "done" /\ mMetrics = "done" /\ mResult = "ok")
    /\ [](mResult # "none" => mPc = "returned")
    /\ [][ServerFails =>
            /\ UNCHANGED <<mMetrics, mMetricsRes, mResult>>
            /\ mPc' = "join"]_vars

C10_Witness ==
    /\ mPc = "returned"
    /\ mServerRes = "err_bind"
    /\ mMetricsRes = "ok"
    /\ mResult = "ok"

-----------------------------------------------------------------------------
Init == InitRoute /\ InitSession /\ InitForm /\ InitCsrf /\ InitMain

SpecRoute == Init /\ [][NextRoute]_vars
SpecSession == Init /\ [][NextSession]_vars
SpecConc == Init /\ [][NextConc]_vars
SpecForm == Init /\ [][NextForm]_vars
SpecCsrf == Init /\ [][NextCsrf]_vars
SpecMain == Init /\ [][NextMain]_vars

====
